---- MODULE Spec2Model ----
(***************************************************************************)
(* A model of the AI-twin access marketplace: the Move modules             *)
(*   ai_twin_marketplace::ai_twin_nft          (asset registry)            *)
(*   ai_twin_marketplace::marketplace          (listing ledger, purchase)  *)
(*   ai_twin_marketplace::access_token         (access credentials)        *)
(*   ai_twin_marketplace::revenue_distribution (revenue pool)              *)
(* Every entry function is one action: a Sui transaction either commits    *)
(* as a whole or aborts and leaves the chain state unchanged.  Shared      *)
(* objects are written by one transaction at a time, so two transactions   *)
(* on one listing are two steps of the model taken in either order.        *)
(* An aborted transaction is a step that changes nothing; the abort code   *)
(* the caller sees is given by the *_check operator of the function, which *)
(* evaluates the function's assert! conditions in the order of the code.   *)
(* `events` is the event log.                                              *)
(***************************************************************************)
EXTENDS Integers, Sequences, FiniteSets, TLC

\* ----- program constants -----
PLATFORM_FEE_PERCENT == 5
ACCESS_TYPE_FULL == 1
ACCESS_TYPE_LIMITED == 2
ACCESS_TYPE_TEMPORARY == 3
SECONDS_PER_DAY == 86400
MS_PER_SECOND == 1000
MIST_PER_SUI == 1000000000

\* ----- bounds of the model -----
MaxListings == 2
MaxTokens == 1
MaxNfts == 3
MaxPurchases == 4
MaxEvents == 4
MaxAccessEvents == 3
MaxEpoch == 1
MaxCheckedPrice == 20

\* ----- input sets -----
Publisher == "platform"
Principals == {"platform", "alice", "bob"}
TwinIds == {"twinA", "twinB"}
Prices == {0, 50}
Payments == {30, 50, 60}
PolicyInputs == {<<0, 1>>, <<ACCESS_TYPE_FULL, 0>>, <<ACCESS_TYPE_TEMPORARY, 0>>}
ListTermsInputs == {"std"}
TermsInputs == {"std", "new"}
KeyInputs == {"k1"}
AccessTwinInputs == {"twinA"}
ListingIdInputs == {1}
ReasonInputs == {"abuse"}
FeePercentInputs == {0, 1, 5, 10, 33, 50, 99, 100}
SaleInputs == {<<"bob", "alice", 19, 1>>, <<"alice", "bob", 10, 0>>, <<"bob", "bob", 0, 2>>}
FeeAmountInputs == {0, 1, 3}
InitialFunds == 60
AccessTypeInputs == {ACCESS_TYPE_FULL, ACCESS_TYPE_LIMITED, ACCESS_TYPE_TEMPORARY}
DurationInputs == {0, 1}
OwnerInputs == {"platform", "bob"}
IssuerInputs == {"platform", "alice"}
ClockValues == {0, 1999, 86400000, 86401999}
NoCreator == "undefined"
ClientListings ==
    {[id |-> "twinA", name |-> "A", price |-> 1, creator |-> "alice"],
     [id |-> "twinB", name |-> "B", price |-> 2, creator |-> "alice"],
     [id |-> "twinC", name |-> "C", price |-> 1, creator |-> NoCreator]}
AccountInputs == {"none", "bob"}
SignOutcomes == {"success", "rejected"}
PLATFORM_WALLET == "platform"
AssetPrincipals == {"alice", "bob"}

VARIABLES
    epoch,            \* tx_context::epoch
    clock_ms,         \* sui::clock::Clock
    wallet,           \* SUI held by each address outside the pool
    twin_registry,    \* AITwinRegistry
    nfts,             \* AITwinNFT objects, by object id; holder = Sui owner
    registry,         \* MarketplaceRegistry
    listings,         \* Listing objects (shared), by object id
    access_registry,  \* AccessRegistry
    tokens,           \* AccessToken objects, by object id; holder = Sui owner
    pool,             \* RevenuePool
    events,           \* the event log
    client            \* the web client: the browser's localStorage and the
                      \* payment transactions it has had executed

vars == <<epoch, clock_ms, wallet, twin_registry, nfts, registry, listings,
          access_registry, tokens, pool, events, client>>

\* ----- helpers -----
EmptyTable == [k \in {} |-> 0]

table_contains(t, k) == k \in DOMAIN t

table_add(t, k, v) == [x \in (DOMAIN t) \cup {k} |-> IF x = k THEN v ELSE t[x]]

table_remove(t, k) == [x \in (DOMAIN t) \ {k} |-> t[x]]

\* an aborted transaction: nothing on chain changes
Abort == UNCHANGED vars

Init ==
    /\ epoch = 0
    /\ clock_ms = 0
    /\ wallet = [p \in Principals |-> InitialFunds]
    /\ twin_registry = [total_minted |-> 0, twins |-> EmptyTable]
    /\ nfts = <<>>
    /\ registry = [platform_fee_percent |-> PLATFORM_FEE_PERCENT,
                   platform_fee_recipient |-> Publisher,
                   total_listings |-> 0,
                   total_sales |-> 0,
                   total_volume |-> 0,
                   listings |-> EmptyTable]
    /\ listings = <<>>
    /\ access_registry = [total_granted |-> 0, active_accesses |-> EmptyTable]
    /\ tokens = <<>>
    /\ pool = [balances |-> EmptyTable,
               total_platform_fees |-> 0,
               platform_fee_recipient |-> Publisher]
    /\ events = <<>>
    /\ client = [marketplaceListings |-> ClientListings,
                 purchasedAccess |-> <<>>,
                 accessibleTwins |-> <<>>,
                 executed |-> <<>>,
                 error |-> ""]

\* ----- environment -----
AdvanceEpoch ==
    /\ epoch < MaxEpoch
    /\ epoch' = epoch + 1
    /\ UNCHANGED <<client, clock_ms, wallet, twin_registry, nfts, registry, listings,
                   access_registry, tokens, pool, events>>

\* ----- ai_twin_nft -----
\* faulty variant: the assertion on the twin id is missing
mint_ai_twin_check_none(twin_id) == "ok"

mint_ai_twin_check(twin_id) ==
    IF ~(~table_contains(twin_registry.twins, twin_id)) THEN "ERROR_TWIN_ALREADY_EXISTS"
    ELSE "ok"

mint_ai_twin(sender, twin_id) ==
    IF mint_ai_twin_check(twin_id) # "ok"
    THEN Abort
    ELSE
        /\ Len(nfts) < MaxNfts
        /\ Len(events) < MaxEvents
        /\ nfts' = Append(nfts, [twin_id |-> twin_id, creator |-> sender,
                                 created_at |-> epoch, holder |-> sender, live |-> TRUE])
        /\ twin_registry' = [total_minted |-> twin_registry.total_minted + 1,
                             twins |-> table_add(twin_registry.twins, twin_id, sender)]
        /\ events' = Append(events, [kind |-> "AITwinMinted", twin_id |-> twin_id,
                                     nft_id |-> Len(nfts) + 1, creator |-> sender,
                                     timestamp |-> epoch])
        /\ UNCHANGED <<client, epoch, clock_ms, wallet, registry, listings,
                       access_registry, tokens, pool>>

\* the NFTs a sender can pass to a transaction: the live ones it owns
OwnedNfts(sender) == {n \in 1..Len(nfts) : nfts[n].live /\ nfts[n].holder = sender}

\* AITwinNFT has the `store` ability: its owner can hand the object to
\* another address with transfer::public_transfer, outside this module, and
\* the registry is not told
public_transfer_nft(sender, n, recipient) ==
    /\ nfts' = [nfts EXCEPT ![n].holder = recipient]
    /\ UNCHANGED <<client, epoch, clock_ms, wallet, twin_registry, registry, listings,
                   access_registry, tokens, pool, events>>

transfer_twin(sender, n, recipient) ==
    LET twin_id == nfts[n].twin_id
        after_remove == IF table_contains(twin_registry.twins, twin_id)
                        THEN table_remove(twin_registry.twins, twin_id)
                        ELSE twin_registry.twins
    IN
    /\ Len(events) < MaxEvents
    /\ twin_registry' = [twin_registry EXCEPT
            !.twins = table_add(after_remove, twin_id, recipient)]
    /\ events' = Append(events, [kind |-> "AITwinTransferred", twin_id |-> twin_id,
                                 nft_id |-> n, from |-> sender, to |-> recipient,
                                 timestamp |-> epoch])
    /\ nfts' = [nfts EXCEPT ![n].holder = recipient]
    /\ UNCHANGED <<client, epoch, clock_ms, wallet, registry, listings,
                   access_registry, tokens, pool>>

\* faulty variant: burning an NFT also deactivates the listings made for it
burn_twin_cascade(sender, n) ==
    LET twin_id == nfts[n].twin_id IN
    /\ Len(events) < MaxEvents
    /\ twin_registry' = [twin_registry EXCEPT
            !.twins = IF table_contains(twin_registry.twins, twin_id)
                      THEN table_remove(twin_registry.twins, twin_id)
                      ELSE twin_registry.twins]
    /\ events' = Append(events, [kind |-> "AITwinBurned", twin_id |-> twin_id,
                                 nft_id |-> n, owner |-> sender, timestamp |-> epoch])
    /\ nfts' = [nfts EXCEPT ![n].live = FALSE]
    /\ listings' = [l \in DOMAIN listings |->
                        IF listings[l].nft_id = n
                        THEN [listings[l] EXCEPT !.is_active = FALSE]
                        ELSE listings[l]]
    /\ UNCHANGED <<client, epoch, clock_ms, wallet, registry,
                   access_registry, tokens, pool>>

burn_twin(sender, n) ==
    LET twin_id == nfts[n].twin_id IN
    /\ Len(events) < MaxEvents
    /\ twin_registry' = [twin_registry EXCEPT
            !.twins = IF table_contains(twin_registry.twins, twin_id)
                      THEN table_remove(twin_registry.twins, twin_id)
                      ELSE twin_registry.twins]
    /\ events' = Append(events, [kind |-> "AITwinBurned", twin_id |-> twin_id,
                                 nft_id |-> n, owner |-> sender, timestamp |-> epoch])
    /\ nfts' = [nfts EXCEPT ![n].live = FALSE]
    /\ UNCHANGED <<client, epoch, clock_ms, wallet, registry, listings,
                   access_registry, tokens, pool>>

\* ----- marketplace -----
ValidAccessType(access_type) ==
    \/ access_type = ACCESS_TYPE_FULL
    \/ access_type = ACCESS_TYPE_LIMITED
    \/ access_type = ACCESS_TYPE_TEMPORARY

list_ai_twin_check(access_type) ==
    IF ~ValidAccessType(access_type) THEN "ERROR_INVALID_ACCESS_TYPE"
    ELSE "ok"

list_ai_twin(sender, n, price, access_type, access_duration_days, terms) ==
    IF list_ai_twin_check(access_type) # "ok"
    THEN Abort
    ELSE
        /\ Len(listings) < MaxListings
        /\ Len(events) < MaxEvents
        /\ listings' = Append(listings,
                [twin_id |-> nfts[n].twin_id,
                 nft_id |-> n,
                 seller |-> sender,
                 price |-> price,
                 access_type |-> access_type,
                 access_duration_days |-> access_duration_days,
                 terms |-> terms,
                 is_active |-> TRUE,
                 created_at |-> epoch])
        /\ registry' = [registry EXCEPT
                !.listings = table_add(registry.listings, Len(listings) + 1, TRUE),
                !.total_listings = registry.total_listings + 1]
        /\ events' = Append(events, [kind |-> "ListingCreated",
                                     listing_id |-> Len(listings) + 1,
                                     twin_id |-> nfts[n].twin_id,
                                     seller |-> sender,
                                     price |-> price,
                                     access_type |-> access_type,
                                     timestamp |-> epoch])
        /\ UNCHANGED <<client, epoch, clock_ms, wallet, twin_registry, nfts,
                       access_registry, tokens, pool>>

\* faulty variant: the seller assertion is missing
update_listing_check_no_seller(sender, l) ==
    IF ~listings[l].is_active THEN "ERROR_LISTING_INACTIVE"
    ELSE "ok"

\* faulty variant: the is_active assertion is missing
update_listing_check_no_active(sender, l) ==
    IF ~(sender = listings[l].seller) THEN "ERROR_NOT_SELLER"
    ELSE "ok"

update_listing_check(sender, l) ==
    IF ~(sender = listings[l].seller) THEN "ERROR_NOT_SELLER"
    ELSE IF ~listings[l].is_active THEN "ERROR_LISTING_INACTIVE"
    ELSE "ok"

\* faulty variant: an update also stamps the listing with the current epoch
update_listing_reset(sender, l, new_price, new_terms) ==
    IF update_listing_check(sender, l) # "ok"
    THEN Abort
    ELSE
        /\ Len(events) < MaxEvents
        /\ listings' = [listings EXCEPT ![l].price = new_price, ![l].terms = new_terms,
                                        ![l].created_at = epoch]
        /\ events' = Append(events, [kind |-> "ListingUpdated",
                                     listing_id |-> l,
                                     new_price |-> new_price,
                                     new_terms |-> new_terms,
                                     timestamp |-> epoch])
        /\ UNCHANGED <<client, epoch, clock_ms, wallet, twin_registry, nfts, registry,
                       access_registry, tokens, pool>>

update_listing(sender, l, new_price, new_terms) ==
    IF update_listing_check(sender, l) # "ok"
    THEN Abort
    ELSE
        /\ Len(events) < MaxEvents
        /\ listings' = [listings EXCEPT ![l].price = new_price, ![l].terms = new_terms]
        /\ events' = Append(events, [kind |-> "ListingUpdated",
                                     listing_id |-> l,
                                     new_price |-> new_price,
                                     new_terms |-> new_terms,
                                     timestamp |-> epoch])
        /\ UNCHANGED <<client, epoch, clock_ms, wallet, twin_registry, nfts, registry,
                       access_registry, tokens, pool>>

\* faulty variant: delisting does not look at is_active
delist_ai_twin_check_no_active(sender, l) ==
    IF ~(sender = listings[l].seller) THEN "ERROR_NOT_SELLER"
    ELSE "ok"

delist_ai_twin_check(sender, l) ==
    IF ~(sender = listings[l].seller) THEN "ERROR_NOT_SELLER"
    ELSE IF ~listings[l].is_active THEN "ERROR_LISTING_INACTIVE"
    ELSE "ok"

delist_ai_twin(sender, l) ==
    IF delist_ai_twin_check(sender, l) # "ok"
    THEN Abort
    ELSE
        /\ Len(events) < MaxEvents
        /\ listings' = [listings EXCEPT ![l].is_active = FALSE]
        /\ registry' = [registry EXCEPT
                !.listings = IF table_contains(registry.listings, l)
                             THEN table_remove(registry.listings, l)
                             ELSE registry.listings]
        /\ events' = Append(events, [kind |-> "ListingDelisted",
                                     listing_id |-> l,
                                     twin_id |-> listings[l].twin_id,
                                     seller |-> listings[l].seller,
                                     timestamp |-> epoch])
        /\ UNCHANGED <<client, epoch, clock_ms, wallet, twin_registry, nfts,
                       access_registry, tokens, pool>>

\* faulty variant: the fee is rounded to the nearest unit instead of down
platform_fee_of_rounded(price, fee_percent) == ((price * fee_percent) + 50) \div 100

platform_fee_of(price, fee_percent) == (price * fee_percent) \div 100

seller_amount_of(price, platform_fee) == price - platform_fee

\* faulty variant: the is_active assertion is missing
purchase_access_check_no_active(l, payment_amount) ==
    IF ~(payment_amount >= listings[l].price) THEN "ERROR_INSUFFICIENT_PAYMENT"
    ELSE "ok"

\* faulty variant: the payment assertion comes before the is_active assertion
purchase_access_check_swapped(l, payment_amount) ==
    IF ~(payment_amount >= listings[l].price) THEN "ERROR_INSUFFICIENT_PAYMENT"
    ELSE IF ~listings[l].is_active THEN "ERROR_LISTING_INACTIVE"
    ELSE "ok"

\* the assertions of purchase_access: the abort code, or "ok"
purchase_access_check(l, payment_amount) ==
    IF ~listings[l].is_active THEN "ERROR_LISTING_INACTIVE"
    ELSE IF ~(payment_amount >= listings[l].price) THEN "ERROR_INSUFFICIENT_PAYMENT"
    ELSE "ok"

\* moving a coin of value `amount` out of `from`'s payment to `to`
pay(w, from, to, amount) ==
    [p \in Principals |->
        w[p] - (IF p = from THEN amount ELSE 0) + (IF p = to THEN amount ELSE 0)]

\* purchase_access, and what its caller does with the four values it returns:
\* the NFT goes to nft_to, the fee coin to fee_to, the seller coin to seller_to,
\* the change stays with the buyer.
purchase_access(buyer, l, n, payment_amount, nft_to, fee_to, seller_to) ==
    IF purchase_access_check(l, payment_amount) # "ok"
    THEN Abort
    ELSE
        LET platform_fee == platform_fee_of(listings[l].price, registry.platform_fee_percent)
            seller_amount == seller_amount_of(listings[l].price, platform_fee)
        IN
        /\ Len(events) < MaxEvents
        /\ listings' = [listings EXCEPT ![l].is_active = FALSE]
        /\ registry' = [registry EXCEPT
                !.total_sales = registry.total_sales + 1,
                !.total_volume = registry.total_volume + listings[l].price]
        /\ events' = Append(events, [kind |-> "PurchaseCompleted",
                                     listing_id |-> l,
                                     twin_id |-> listings[l].twin_id,
                                     buyer |-> buyer,
                                     seller |-> listings[l].seller,
                                     price |-> listings[l].price,
                                     platform_fee |-> platform_fee,
                                     seller_amount |-> seller_amount,
                                     timestamp |-> epoch])
        /\ wallet' = pay(pay(wallet, buyer, fee_to, platform_fee),
                         buyer, seller_to, seller_amount)
        /\ nfts' = [nfts EXCEPT ![n].holder = nft_to]
        /\ UNCHANGED <<client, epoch, clock_ms, twin_registry, access_registry, tokens, pool>>

complete_purchase(buyer, l, n, payment_amount) ==
    purchase_access(buyer, l, n, payment_amount,
                    buyer, registry.platform_fee_recipient, listings[l].seller)

\* purchase_access is public: a transaction can call it directly and send the
\* coins it returns to an address of its choice.
purchase_access_call(buyer, l, n, payment_amount, payee) ==
    purchase_access(buyer, l, n, payment_amount,
                    buyer, payee, payee)

\* ----- access_token -----
\* the AdminCap is created at publish for the publisher and has no `store`
\* ability: no function of the module moves it
HoldsAdminCap(sender) == sender = Publisher

\* the tokens a sender can pass to a transaction: the ones it owns
OwnedTokens(sender) == {t \in 1..Len(tokens) : tokens[t].holder = sender}

timestamp_seconds(ms) == ms \div MS_PER_SECOND

\* faulty variant: the duration is taken in hours
expiry_of_hours(current_time, duration_days) == current_time + (duration_days * 3600)

expiry_of(current_time, duration_days) == current_time + (duration_days * SECONDS_PER_DAY)

mint_access_token(twin_id, owner, access_type, duration_days, encrypted_key, listing_id, original_seller) ==
    LET current_time == timestamp_seconds(clock_ms)
        token_id == Len(tokens) + 1
        owner_tokens == IF table_contains(access_registry.active_accesses, owner)
                        THEN access_registry.active_accesses[owner]
                        ELSE <<>>
    IN
    /\ tokens' = Append(tokens,
            [twin_id |-> twin_id,
             owner |-> owner,
             access_type |-> access_type,
             granted_at |-> current_time,
             expires_at |-> expiry_of(current_time, duration_days),
             encrypted_key |-> encrypted_key,
             purchase_listing_id |-> listing_id,
             is_active |-> TRUE,
             original_seller |-> original_seller,
             holder |-> owner])
    /\ access_registry' =
            [total_granted |-> access_registry.total_granted + 1,
             active_accesses |-> table_add(access_registry.active_accesses, owner,
                                           Append(owner_tokens, token_id))]
    /\ events' = Append(events, [kind |-> "AccessGranted",
                                 token_id |-> token_id,
                                 twin_id |-> twin_id,
                                 owner |-> owner,
                                 access_type |-> access_type,
                                 expires_at |-> expiry_of(current_time, duration_days),
                                 timestamp |-> current_time])

\* mint_access_token, then transfer::public_transfer(token, owner)
mint_and_transfer_access(twin_id, owner, access_type, duration_days, encrypted_key, listing_id, original_seller) ==
    /\ Len(tokens) < MaxTokens
    /\ Len(events) < MaxAccessEvents
    /\ mint_access_token(twin_id, owner, access_type, duration_days, encrypted_key,
                         listing_id, original_seller)
    /\ UNCHANGED <<client, epoch, clock_ms, wallet, twin_registry, nfts, registry, listings, pool>>

\* faulty variant: the current holder may revoke as well
revoke_access_check_holder(sender, t) ==
    IF ~(sender = tokens[t].original_seller \/ sender = tokens[t].holder)
    THEN "ERROR_NOT_AUTHORIZED"
    ELSE "ok"

revoke_access_check(sender, t) ==
    IF ~(sender = tokens[t].original_seller) THEN "ERROR_NOT_AUTHORIZED"
    ELSE "ok"

revoke_access(sender, t, reason) ==
    IF revoke_access_check(sender, t) # "ok"
    THEN Abort
    ELSE
        /\ Len(events) < MaxAccessEvents
        /\ tokens' = [tokens EXCEPT ![t].is_active = FALSE]
        /\ events' = Append(events, [kind |-> "AccessRevoked",
                                     token_id |-> t,
                                     twin_id |-> tokens[t].twin_id,
                                     owner |-> tokens[t].owner,
                                     reason |-> reason,
                                     timestamp |-> epoch])
        /\ UNCHANGED <<client, epoch, clock_ms, wallet, twin_registry, nfts, registry, listings,
                       access_registry, pool>>

\* faulty variant: a token is still valid in the second it expires
check_access_inclusive(token, now_ms) ==
    IF ~token.is_active
    THEN FALSE
    ELSE timestamp_seconds(now_ms) <= token.expires_at

\* faulty variant: the is_active flag is not looked at
check_access_expiry_only(token, now_ms) ==
    timestamp_seconds(now_ms) < token.expires_at

check_access(token, now_ms) ==
    IF ~token.is_active
    THEN FALSE
    ELSE timestamp_seconds(now_ms) < token.expires_at

\* vector::index_of followed by vector::remove: the first occurrence goes
RECURSIVE vector_remove_first(_, _)
vector_remove_first(v, x) ==
    IF v = <<>> THEN <<>>
    ELSE IF Head(v) = x THEN Tail(v)
    ELSE <<Head(v)>> \o vector_remove_first(Tail(v), x)

transfer_access(sender, t, recipient) ==
    LET after_remove ==
            IF table_contains(access_registry.active_accesses, sender)
            THEN [access_registry.active_accesses EXCEPT
                    ![sender] = vector_remove_first(@, t)]
            ELSE access_registry.active_accesses
        recipient_tokens == IF table_contains(after_remove, recipient)
                            THEN after_remove[recipient]
                            ELSE <<>>
    IN
    /\ Len(events) < MaxAccessEvents
    /\ access_registry' = [access_registry EXCEPT
            !.active_accesses = table_add(after_remove, recipient,
                                          Append(recipient_tokens, t))]
    /\ events' = Append(events, [kind |-> "AccessTransferred",
                                 token_id |-> t,
                                 twin_id |-> tokens[t].twin_id,
                                 from |-> sender,
                                 to |-> recipient,
                                 timestamp |-> epoch])
    /\ tokens' = [tokens EXCEPT ![t].holder = recipient]
    /\ UNCHANGED <<client, epoch, clock_ms, wallet, twin_registry, nfts, registry, listings, pool>>

\* ----- revenue_distribution -----
get_balance(user) ==
    IF ~table_contains(pool.balances, user) THEN 0 ELSE pool.balances[user]

\* faulty variant: the coin replaces the balance instead of being added to it
balance_join_overwrite(balance, amount) == amount

balance_join(balance, amount) == balance + amount

\* faulty variant: half of the requested amount is taken out
balance_split_half(balance, amount) == balance - (amount \div 2)

\* what is left in a balance after `amount` is split off
balance_split(balance, amount) == balance - amount

\* record_sale is public: the caller hands in the two coins, here out of its wallet
record_sale(caller, seller, seller_payment, platform_fee) ==
    /\ Len(events) < MaxEvents
    /\ seller_payment + platform_fee <= wallet[caller]
    /\ wallet' = [wallet EXCEPT ![caller] = @ - (seller_payment + platform_fee)]
    /\ pool' = [pool EXCEPT
            !.balances = table_add(pool.balances, seller,
                                   balance_join(get_balance(seller), seller_payment)),
            !.total_platform_fees = balance_join(pool.total_platform_fees, platform_fee)]
    /\ events' = Append(events, [kind |-> "SaleRecorded",
                                 seller |-> seller,
                                 amount |-> seller_payment,
                                 platform_fee |-> platform_fee,
                                 timestamp |-> epoch])
    /\ UNCHANGED <<client, epoch, clock_ms, twin_registry, nfts, registry, listings,
                   access_registry, tokens>>

withdraw_earnings_check(user) ==
    IF ~table_contains(pool.balances, user) THEN "ERROR_NO_EARNINGS"
    ELSE IF ~(pool.balances[user] > 0) THEN "ERROR_INSUFFICIENT_BALANCE"
    ELSE "ok"

withdraw_earnings(user) ==
    IF withdraw_earnings_check(user) # "ok"
    THEN Abort
    ELSE
        LET balance_value == pool.balances[user]
            remaining == balance_split(pool.balances[user], balance_value)
        IN
        /\ Len(events) < MaxEvents
        /\ pool' = [pool EXCEPT !.balances[user] = remaining]
        /\ events' = Append(events, [kind |-> "EarningsWithdrawn",
                                     user |-> user,
                                     amount |-> balance_value,
                                     timestamp |-> epoch])
        /\ wallet' = [wallet EXCEPT ![user] = @ + (balance_value - remaining)]
        /\ UNCHANGED <<client, epoch, clock_ms, twin_registry, nfts, registry, listings,
                       access_registry, tokens>>

withdraw_platform_fees_check(sender, amount) ==
    IF ~(sender = pool.platform_fee_recipient) THEN "ERROR_NO_EARNINGS"
    ELSE IF ~(amount <= pool.total_platform_fees) THEN "ERROR_INSUFFICIENT_BALANCE"
    ELSE "ok"

withdraw_platform_fees(sender, amount) ==
    IF withdraw_platform_fees_check(sender, amount) # "ok"
    THEN Abort
    ELSE
        LET remaining == balance_split(pool.total_platform_fees, amount) IN
        /\ Len(events) < MaxEvents
        /\ pool' = [pool EXCEPT !.total_platform_fees = remaining]
        /\ events' = Append(events, [kind |-> "PlatformFeesWithdrawn",
                                     recipient |-> sender,
                                     amount |-> amount,
                                     timestamp |-> epoch])
        /\ wallet' = [wallet EXCEPT ![sender] = @ + (pool.total_platform_fees - remaining)]
        /\ UNCHANGED <<client, epoch, clock_ms, twin_registry, nfts, registry, listings,
                       access_registry, tokens>>

\* ----- the web client: purchaseService.ts and BuyAccessModal -----
\* the payment transaction: the price in MIST, a tenth of it (rounded down)
\* to the platform wallet and the rest to the creator
createPurchaseTransaction(params) ==
    LET totalAmountInMist == params.price * MIST_PER_SUI
        platformFeeInMist == totalAmountInMist \div 10
        creatorAmountInMist == totalAmountInMist - platformFeeInMist
    IN
    [sender |-> params.buyerAddress,
     platformWallet |-> PLATFORM_WALLET,
     platformFeeInMist |-> platformFeeInMist,
     creatorAddress |-> params.creatorAddress,
     creatorAmountInMist |-> creatorAmountInMist]

\* localStorage.purchasedAccess after recordPurchase
recordPurchase(purchases, params) ==
    Append(purchases, [listingId |-> params.twinId,
                       twinName |-> params.twinName,
                       price |-> params.price,
                       buyer |-> params.buyerAddress,
                       transactionId |-> params.transactionDigest])

\* localStorage.accessibleTwins after grantTwinAccess
grantTwinAccess(marketplaceListings, accessibleTwins, twinId) ==
    IF \E l \in marketplaceListings : l.id = twinId
    THEN LET hasAccess == \E i \in DOMAIN accessibleTwins : accessibleTwins[i].id = twinId
         IN IF ~hasAccess
            THEN Append(accessibleTwins, [id |-> twinId, accessType |-> "purchased"])
            ELSE accessibleTwins
    ELSE accessibleTwins

\* BuyAccessModal.handlePurchase for the listing the modal shows; `outcome`
\* is what signAndExecute does: it executes the transaction or throws
handlePurchase(account, listing, outcome) ==
    /\ UNCHANGED <<epoch, clock_ms, wallet, twin_registry, nfts, registry, listings,
                   access_registry, tokens, pool, events>>
    /\ IF account = "none"
       THEN client' = [client EXCEPT !.error = "Please connect your wallet first"]
       ELSE IF listing.creator = NoCreator
       THEN client' = [client EXCEPT !.error = "no valid creator address"]
       ELSE IF outcome # "success"
       THEN client' = [client EXCEPT !.error = "Transaction was rejected"]
       ELSE
           LET tx == createPurchaseTransaction(
                        [twinId |-> listing.id, twinName |-> listing.name,
                         price |-> listing.price, creatorAddress |-> listing.creator,
                         buyerAddress |-> account])
               digest == Len(client.executed) + 1
           IN
           /\ Len(client.executed) < MaxPurchases
           /\ client' = [client EXCEPT
                   !.error = "",
                   !.executed = Append(@, [twinId |-> listing.id, digest |-> digest,
                                           transaction |-> tx]),
                   !.purchasedAccess = recordPurchase(@,
                        [twinId |-> listing.id, twinName |-> listing.name,
                         price |-> listing.price, buyerAddress |-> account,
                         transactionDigest |-> digest]),
                   !.accessibleTwins =
                        grantTwinAccess(client.marketplaceListings, @, listing.id)]

\* ----- the marketplace as a state machine -----
MintAiTwin == \E sender \in Principals, twin_id \in TwinIds : mint_ai_twin(sender, twin_id)

ListAiTwin ==
    \E sender \in Principals, price \in Prices, policy \in PolicyInputs,
       terms \in ListTermsInputs :
        \E n \in OwnedNfts(sender) :
            list_ai_twin(sender, n, price, policy[1], policy[2], terms)

UpdateListing ==
    \E sender \in Principals, l \in 1..Len(listings),
       new_price \in Prices, new_terms \in TermsInputs :
        update_listing(sender, l, new_price, new_terms)

DelistAiTwin ==
    \E sender \in Principals, l \in 1..Len(listings) : delist_ai_twin(sender, l)

CompletePurchase ==
    \E buyer \in Principals, l \in 1..Len(listings), payment_amount \in Payments :
        \E n \in OwnedNfts(buyer) :
            /\ payment_amount <= wallet[buyer]
            /\ complete_purchase(buyer, l, n, payment_amount)

PurchaseAccessCall ==
    \E buyer \in Principals, l \in 1..Len(listings), payment_amount \in Payments,
       payee \in Principals :
        \E n \in OwnedNfts(buyer) :
            /\ payment_amount <= wallet[buyer]
            /\ purchase_access_call(buyer, l, n, payment_amount, payee)

RecordSale == \E sale \in SaleInputs : record_sale(sale[1], sale[2], sale[3], sale[4])

Next ==
    \/ MintAiTwin
    \/ ListAiTwin
    \/ UpdateListing
    \/ DelistAiTwin
    \/ CompletePurchase
    \/ PurchaseAccessCall

Spec == Init /\ [][Next]_vars

\* ----- the access-token module as a state machine -----
Tick ==
    /\ \E now \in ClockValues : now > clock_ms /\ clock_ms' = now
    /\ UNCHANGED <<client, epoch, wallet, twin_registry, nfts, registry, listings,
                   access_registry, tokens, pool, events>>

MintAndTransferAccess ==
    \E twin_id \in AccessTwinInputs, owner \in OwnerInputs,
       access_type \in AccessTypeInputs, duration_days \in DurationInputs,
       encrypted_key \in KeyInputs, listing_id \in ListingIdInputs,
       original_seller \in IssuerInputs :
        mint_and_transfer_access(twin_id, owner, access_type, duration_days,
                                 encrypted_key, listing_id, original_seller)

RevokeAccess ==
    \E sender \in Principals, reason \in ReasonInputs :
        \E t \in OwnedTokens(sender) :
            /\ HoldsAdminCap(sender)
            /\ revoke_access(sender, t, reason)

CheckAccess ==
    \E sender \in Principals :
        \E t \in OwnedTokens(sender) :
            /\ check_access(tokens[t], clock_ms) \in BOOLEAN
            /\ UNCHANGED vars

TransferAccess ==
    \E sender \in Principals, recipient \in Principals :
        \E t \in OwnedTokens(sender) : transfer_access(sender, t, recipient)

NextAccess ==
    \/ Tick
    \/ MintAndTransferAccess
    \/ RevokeAccess
    \/ CheckAccess
    \/ TransferAccess

SpecAccess == Init /\ [][NextAccess]_vars

\* ----- the asset registry as a state machine -----
MintAsset ==
    \E sender \in AssetPrincipals, twin_id \in TwinIds : mint_ai_twin(sender, twin_id)

PublicTransferNft ==
    \E sender \in Principals, recipient \in AssetPrincipals :
        \E n \in OwnedNfts(sender) : public_transfer_nft(sender, n, recipient)

TransferTwin ==
    \E sender \in Principals, recipient \in AssetPrincipals :
        \E n \in OwnedNfts(sender) : transfer_twin(sender, n, recipient)

BurnTwin ==
    \E sender \in Principals : \E n \in OwnedNfts(sender) : burn_twin(sender, n)

ListForAsset ==
    \E sender \in Principals :
        \E n \in OwnedNfts(sender) :
            list_ai_twin(sender, n, 50, ACCESS_TYPE_FULL, 0, "std")

GrantAccess ==
    \E twin_id \in AccessTwinInputs :
        mint_and_transfer_access(twin_id, "bob", ACCESS_TYPE_FULL, 1, "k1", 1, "alice")

NextAsset ==
    \/ MintAsset
    \/ PublicTransferNft
    \/ TransferTwin
    \/ BurnTwin

SpecAsset == Init /\ [][NextAsset]_vars

\* ----- burning assets that listings and tokens refer to -----
NextBurn ==
    \/ MintAiTwin
    \/ BurnTwin
    \/ ListForAsset
    \/ GrantAccess

SpecBurn == Init /\ [][NextBurn]_vars

\* ----- listings over several epochs -----
NextListing ==
    \/ AdvanceEpoch
    \/ MintAsset
    \/ ListForAsset
    \/ UpdateListing
    \/ DelistAiTwin

SpecListing == Init /\ [][NextListing]_vars

\* ----- the web client as a state machine -----
HandlePurchase ==
    \E account \in AccountInputs, listing \in ClientListings, outcome \in SignOutcomes :
        handlePurchase(account, listing, outcome)

NextClient == HandlePurchase

SpecClient == Init /\ [][NextClient]_vars

\* ----- the revenue pool as a state machine -----
WithdrawEarnings == \E user \in Principals : withdraw_earnings(user)

WithdrawPlatformFees ==
    \E sender \in Principals, amount \in FeeAmountInputs :
        withdraw_platform_fees(sender, amount)

NextRevenue ==
    \/ RecordSale
    \/ WithdrawEarnings
    \/ WithdrawPlatformFees

SpecRevenue == Init /\ [][NextRevenue]_vars

\* ----- observations used by the properties -----
ListingIds == 1..Len(listings)

TokenIds == 1..Len(tokens)

EventsOfKind(kind) == {i \in 1..Len(events) : events[i].kind = kind}

\* the events that record listing l being deactivated
Deactivations(l) ==
    {i \in 1..Len(events) :
        /\ events[i].kind \in {"ListingDelisted", "PurchaseCompleted"}
        /\ events[i].listing_id = l}

PurchasesOf(l) == {i \in EventsOfKind("PurchaseCompleted") : events[i].listing_id = l}

\* a step that appended an event of this kind
Emitted(kind) ==
    /\ Len(events') = Len(events) + 1
    /\ events'[Len(events')].kind = kind

RECURSIVE SumOver(_, _)
SumOver(f, S) ==
    IF S = {} THEN 0
    ELSE LET x == CHOOSE y \in S : TRUE IN f[x] + SumOver(f, S \ {x})

\* a principal that can submit a purchase with this payment
CanAttempt(buyer, payment_amount) ==
    OwnedNfts(buyer) # {} /\ payment_amount <= wallet[buyer]

\* ----- C1 -----
\* C1 as claimed: a listing is deactivated by at most one purchase or delist
\* call, and every purchase or delist attempted on a deactivated listing
\* fails with Inactive.
C1_AsClaimed ==
    \A l \in ListingIds :
        /\ Cardinality(Deactivations(l)) <= 1
        /\ ~listings[l].is_active =>
            /\ \A payment_amount \in Payments :
                purchase_access_check(l, payment_amount) = "ERROR_LISTING_INACTIVE"
            /\ \A sender \in Principals :
                delist_ai_twin_check(sender, l) = "ERROR_LISTING_INACTIVE"

C1_Settled ==
    \A l \in ListingIds :
        /\ Cardinality(Deactivations(l)) <= 1
        /\ listings[l].is_active <=> Deactivations(l) = {}
        /\ ~listings[l].is_active =>
            /\ \A payment_amount \in Payments :
                purchase_access_check(l, payment_amount) = "ERROR_LISTING_INACTIVE"
            /\ \A sender \in Principals :
                delist_ai_twin_check(sender, l) =
                    IF sender = listings[l].seller
                    THEN "ERROR_LISTING_INACTIVE"
                    ELSE "ERROR_NOT_SELLER"

C1_StaysInactive ==
    \A l \in ListingIds :
        /\ ~listings[l].is_active => ~listings'[l].is_active
        /\ (listings[l].is_active /\ ~listings'[l].is_active) =>
            /\ Emitted("ListingDelisted") \/ Emitted("PurchaseCompleted")
            /\ events'[Len(events')].listing_id = l

\* C1 (amended): a listing is deactivated by at most one purchase or delist
\* call and then stays inactive; on a deactivated listing every purchase
\* fails with Inactive, a delist by the seller fails with Inactive and a
\* delist by anyone else fails with NotSeller.
C1_DeactivatedOnce == [](C1_Settled) /\ [][C1_StaysInactive]_vars

\* a purchased listing on which the seller retries a delist, another principal
\* tries a delist and a funded buyer retries the purchase
C1_Witness ==
    \E l \in ListingIds :
        /\ ~listings[l].is_active
        /\ Cardinality(PurchasesOf(l)) = 1
        /\ \E sender \in Principals : sender # listings[l].seller
        /\ \E buyer \in Principals :
            /\ buyer # listings[l].seller
            /\ CanAttempt(buyer, listings[l].price)
            /\ listings[l].price > 0

\* ----- C2 -----
C2_State ==
    \A l \in ListingIds :
        /\ Cardinality(PurchasesOf(l)) <= 1
        /\ \A payment_amount \in Payments :
            /\ (listings[l].is_active /\ payment_amount >= listings[l].price)
                    => purchase_access_check(l, payment_amount) = "ok"
            /\ PurchasesOf(l) # {}
                    => purchase_access_check(l, payment_amount) = "ERROR_LISTING_INACTIVE"

C2_Step ==
    Emitted("PurchaseCompleted") =>
        LET e == events'[Len(events')] IN
        /\ listings[e.listing_id].is_active
        /\ ~listings'[e.listing_id].is_active
        /\ PurchasesOf(e.listing_id) = {}
        /\ e.price = listings[e.listing_id].price
        /\ e.platform_fee + e.seller_amount = e.price
        /\ \A q \in Principals \ {e.buyer} : wallet'[q] >= wallet[q]
        /\ wallet[e.buyer] - wallet'[e.buyer] <= e.price
        /\ SumOver(wallet', Principals) = SumOver(wallet, Principals)
        /\ \A k \in ListingIds \ {e.listing_id} : listings'[k] = listings[k]

\* C2: of two purchases of one active listing, each with sufficient payment,
\* the one that runs first succeeds and the other fails with Inactive, in
\* either order; one buyer is charged, once, and one fee and one seller
\* payment are split off.
C2_OneBuyerWins == [](C2_State) /\ [][C2_Step]_vars

\* a listing sold to one buyer while a second funded buyer is turned away
C2_Witness ==
    \E l \in ListingIds :
        /\ Cardinality(PurchasesOf(l)) = 1
        /\ listings[l].price > 0
        /\ \E i \in PurchasesOf(l), other \in Principals :
            /\ other # events[i].buyer
            /\ CanAttempt(other, listings[l].price)
            /\ wallet[events[i].buyer] < InitialFunds
            /\ wallet[other] >= InitialFunds
            /\ purchase_access_check(l, listings[l].price) = "ERROR_LISTING_INACTIVE"

\* ----- C3 -----
FloorSplit(price, fee_percent, platform_fee, seller_amount) ==
    /\ platform_fee * 100 <= price * fee_percent
    /\ price * fee_percent < (platform_fee + 1) * 100
    /\ seller_amount = price - platform_fee
    /\ platform_fee + seller_amount = price
    /\ platform_fee >= 0
    /\ seller_amount >= 0

\* C3: every successful purchase splits the price into
\* platform_fee = floor(price * fee_percent / 100), with fee_percent the
\* registry's platform_fee_percent, and seller_amount = price - platform_fee,
\* which add up to the price; the split adds up for every price >= 1 and
\* every fee_percent in 0..100.
C3_FeeSplit ==
    /\ registry.platform_fee_percent \in 0..100
    /\ \A i \in EventsOfKind("PurchaseCompleted") :
        FloorSplit(events[i].price, registry.platform_fee_percent,
                   events[i].platform_fee, events[i].seller_amount)
    /\ \A price \in 1..MaxCheckedPrice, fee_percent \in FeePercentInputs :
        FloorSplit(price, fee_percent,
                   platform_fee_of(price, fee_percent),
                   seller_amount_of(price, platform_fee_of(price, fee_percent)))

\* a purchase at price 50: the 5% fee of 2.5 is floored to 2, the seller gets 48
C3_Witness ==
    \E i \in EventsOfKind("PurchaseCompleted") :
        /\ events[i].price = 50
        /\ events[i].platform_fee = 2
        /\ events[i].seller_amount = 48

\* ----- C4 -----
\* the tokens issued for the purchase recorded by event e
CredentialsFor(e) ==
    {t \in TokenIds :
        /\ tokens[t].purchase_listing_id = e.listing_id
        /\ tokens[t].owner = e.buyer
        /\ tokens[t].holder = e.buyer
        /\ tokens[t].twin_id = listings[e.listing_id].twin_id
        /\ tokens[t].access_type = listings[e.listing_id].access_type
        /\ tokens[t].original_seller = e.seller}

\* C4 as claimed: every successful purchase issues exactly one access token
\* to the buyer, for the listing's twin, with the listing's access type, the
\* listing as purchase_listing_id and the seller as original_seller, and the
\* buyer then holds a token for which check_access is true.
C4_AsClaimed ==
    \A i \in EventsOfKind("PurchaseCompleted") :
        /\ Cardinality(CredentialsFor(events[i])) = 1
        /\ \E t \in CredentialsFor(events[i]) : check_access(tokens[t], clock_ms)

\* ----- C5 -----
PoolBalances == SumOver(pool.balances, DOMAIN pool.balances)

\* what record_sale has credited so far: the marketplace has no withdrawal,
\* so it is what the pool holds
PoolCredited == PoolBalances + pool.total_platform_fees

RECURSIVE SettledPrices(_)
SettledPrices(n) ==
    IF n = 0 THEN 0
    ELSE (IF events[n].kind = "PurchaseCompleted" THEN events[n].price ELSE 0)
         + SettledPrices(n - 1)

\* C5 as claimed: the revenue pool is credited once per settled listing and
\* by nothing else: what record_sale has credited equals the sum of the
\* prices of the listings settled by a purchase, each seller holding its
\* seller_amount and the platform its fee.
C5_AsClaimed ==
    /\ PoolCredited = SettledPrices(Len(events))
    /\ \A i \in EventsOfKind("PurchaseCompleted") :
        /\ get_balance(events[i].seller) >= events[i].seller_amount
        /\ pool.total_platform_fees >= events[i].platform_fee

\* ----- C6 -----
C6_State ==
    \A l \in ListingIds, payment_amount \in Payments :
        /\ purchase_access_check(l, payment_amount)
                \in {"ok", "ERROR_LISTING_INACTIVE", "ERROR_INSUFFICIENT_PAYMENT"}
        /\ purchase_access_check(l, payment_amount) = "ERROR_LISTING_INACTIVE"
                <=> ~listings[l].is_active
        /\ purchase_access_check(l, payment_amount) = "ERROR_INSUFFICIENT_PAYMENT" =>
            /\ listings[l].is_active
            /\ payment_amount < listings[l].price
            /\ \A enough \in Payments :
                enough >= listings[l].price => purchase_access_check(l, enough) = "ok"

C6_Step ==
    /\ \/ UNCHANGED vars
       \/ \A buyer \in Principals, l \in ListingIds, payment_amount \in Payments,
             payee \in Principals :
               \A n \in OwnedNfts(buyer) :
                   purchase_access_check(l, payment_amount) # "ok" =>
                       /\ ~complete_purchase(buyer, l, n, payment_amount)
                       /\ ~purchase_access_call(buyer, l, n, payment_amount, payee)
    /\ events' = events => UNCHANGED vars
    /\ Emitted("PurchaseCompleted") =>
        /\ listings[events'[Len(events')].listing_id].is_active
        /\ wallet[events'[Len(events')].buyer] >= events'[Len(events')].price

\* C6: a purchase fails only with Inactive (the listing is not active) or
\* InsufficientPayment (an active listing, payment_amount < price); the failed
\* purchase changes no listing, counter, balance or token and emits no
\* event, and after InsufficientPayment the listing is still active and a
\* payment of at least the price buys it.
C6_FailedPurchaseChangesNothing == [](C6_State) /\ [][C6_Step]_vars

\* a funded buyer offering 30 for an active listing priced 50
C6_Witness ==
    \E l \in ListingIds, buyer \in Principals :
        /\ listings[l].is_active
        /\ listings[l].price = 50
        /\ buyer # listings[l].seller
        /\ CanAttempt(buyer, 50)
        /\ purchase_access_check(l, 30) = "ERROR_INSUFFICIENT_PAYMENT"
        /\ purchase_access_check(l, 50) = "ok"

\* ----- C7 -----
\* the token does not run out at any time the clock can show; access_token
\* stores an expiry time in every token, so this is a property of that time
NeverExpires(token) == \A now \in ClockValues : now < token.expires_at * 1000

C7_State ==
    \A t \in TokenIds, now \in ClockValues :
        /\ check_access(tokens[t], now) <=>
                /\ tokens[t].is_active
                /\ NeverExpires(tokens[t]) \/ now < tokens[t].expires_at * 1000
        /\ now >= tokens[t].expires_at * 1000 => ~check_access(tokens[t], now)
        /\ \A later \in ClockValues :
                (later >= now /\ ~check_access(tokens[t], now))
                    => ~check_access(tokens[t], later)

C7_Step == CheckAccess => UNCHANGED vars

\* C7: check_access(token, now) is true exactly when the token is active and
\* (it never expires or now < expires_at); it is false at every
\* now >= expires_at, and calling it changes no state.
C7_CheckValid == [](C7_State) /\ [][C7_Step]_vars

\* an active one-day token looked at in the very second it expires
C7_Witness ==
    \E t \in TokenIds :
        /\ tokens[t].is_active
        /\ tokens[t].expires_at = 86400
        /\ clock_ms = 86400000
        /\ ~check_access(tokens[t], clock_ms)
        /\ check_access(tokens[t], 1999)

\* ----- C8 -----
\* C8 as claimed: a token minted with the Full access type never expires:
\* whatever its duration_days, check_access is true at every later time as
\* long as the token has not been revoked.
C8_AsClaimed ==
    \A t \in TokenIds :
        (tokens[t].access_type = ACCESS_TYPE_FULL /\ tokens[t].is_active)
            => check_access(tokens[t], clock_ms)

\* ----- C9 -----
C9_State ==
    \A t \in TokenIds :
        tokens[t].access_type \in {ACCESS_TYPE_LIMITED, ACCESS_TYPE_TEMPORARY} =>
            /\ tokens[t].expires_at >= tokens[t].granted_at
            /\ \E d \in DurationInputs :
                tokens[t].expires_at = tokens[t].granted_at + d * 86400
            /\ tokens[t].is_active =>
                \A now \in ClockValues :
                    now >= tokens[t].granted_at * 1000 =>
                        (check_access(tokens[t], now)
                            <=> now < tokens[t].expires_at * 1000)

C9_Step ==
    \A twin_id \in AccessTwinInputs, owner \in OwnerInputs,
       access_type \in AccessTypeInputs, d \in DurationInputs,
       encrypted_key \in KeyInputs, listing_id \in ListingIdInputs,
       original_seller \in IssuerInputs :
        mint_and_transfer_access(twin_id, owner, access_type, d, encrypted_key,
                                 listing_id, original_seller) =>
            LET token == tokens'[Len(tokens')] IN
            /\ token.granted_at * 1000 <= clock_ms
            /\ clock_ms < (token.granted_at + 1) * 1000
            /\ token.expires_at = token.granted_at + d * 86400
            /\ token.access_type = access_type
            /\ token.is_active

\* C9: a Limited or Temporary token minted at time T with duration_days = d
\* has granted_at = T and expires_at = T + d * 86400 >= granted_at; unless
\* revoked it is valid at every now with T <= now < T + d * 86400 and
\* invalid at every now >= T + d * 86400.
C9_LimitedExpiry == [](C9_State) /\ [][C9_Step]_vars

\* a one-day Temporary token minted in second 1: valid in second 86400, and
\* the clock now shows second 86401, where it is not
C9_Witness ==
    \E t \in TokenIds :
        /\ tokens[t].access_type = ACCESS_TYPE_TEMPORARY
        /\ tokens[t].is_active
        /\ tokens[t].granted_at = 1
        /\ tokens[t].expires_at = 86401
        /\ check_access(tokens[t], 86400000)
        /\ clock_ms = 86401999
        /\ ~check_access(tokens[t], clock_ms)

\* ----- C10 -----
Revocations(t) == {i \in EventsOfKind("AccessRevoked") : events[i].token_id = t}

C10_State ==
    \A t \in TokenIds :
        /\ tokens[t].is_active <=> Revocations(t) = {}
        /\ ~tokens[t].is_active =>
            \A now \in ClockValues : ~check_access(tokens[t], now)

C10_Step ==
    /\ \A t \in TokenIds : ~tokens[t].is_active => ~tokens'[t].is_active
    /\ Emitted("AccessRevoked") => ~tokens'[events'[Len(events')].token_id].is_active

\* C10: revoke_access sets is_active to false and nothing sets it back: once
\* a token is revoked it is inactive in every later state, also after a
\* transfer or a second revoke, and check_access is false at every time,
\* before and after the expiry.
C10_RevocationOneWay == [](C10_State) /\ [][C10_Step]_vars

\* a token revoked before its expiry and transferred afterwards
C10_Witness ==
    \E t \in TokenIds :
        /\ Revocations(t) # {}
        /\ ~tokens[t].is_active
        /\ clock_ms < tokens[t].expires_at * 1000
        /\ tokens[t].holder # tokens[t].original_seller
        /\ ~check_access(tokens[t], clock_ms)

\* ----- C11 -----
C11_State ==
    \A t \in TokenIds, sender \in Principals :
        sender # tokens[t].original_seller =>
            revoke_access_check(sender, t) = "ERROR_NOT_AUTHORIZED"

C11_Step ==
    /\ \A t \in TokenIds, sender \in Principals, reason \in ReasonInputs :
            (sender # tokens[t].original_seller /\ revoke_access(sender, t, reason))
                => UNCHANGED vars
    /\ Emitted("AccessRevoked") =>
            LET t == events'[Len(events')].token_id IN
            /\ tokens[t].holder = tokens[t].original_seller
            /\ \A u \in TokenIds : u # t => tokens'[u] = tokens[u]

C12_AsClaimed ==
    \A t \in TokenIds, sender \in Principals :
        (sender = tokens[t].original_seller \/ HoldsAdminCap(sender)) =>
            /\ HoldsAdminCap(sender)
            /\ revoke_access_check(sender, t) = "ok"

\* ----- C13 -----
\* the last thing the pool did for principal p was a withdrawal of p's
\* earnings: no sale has been recorded for p since
WithdrewLast(p) ==
    \E i \in EventsOfKind("EarningsWithdrawn") :
        /\ events[i].user = p
        /\ \A j \in EventsOfKind("SaleRecorded") : j > i => events[j].seller # p

\* C13 as claimed: after a successful withdraw_earnings by a principal, a
\* second withdraw_earnings by the same principal with no record_sale for it
\* in between fails with ERROR_NO_EARNINGS, the error of a principal that was
\* never credited.
C13_AsClaimed ==
    \A p \in Principals :
        WithdrewLast(p) => withdraw_earnings_check(p) = "ERROR_NO_EARNINGS"

\* ----- C14 -----
\* get_balance in the state a step leads to
BalanceAfter(user) ==
    IF ~table_contains(pool'.balances, user) THEN 0 ELSE pool'.balances[user]

C14_Step ==
    Emitted("EarningsWithdrawn") =>
        LET e == events'[Len(events')]
            p == e.user
        IN
        /\ withdraw_earnings_check(p) = "ok"
        /\ e.amount = get_balance(p)
        /\ e.amount > 0
        /\ wallet'[p] = wallet[p] + get_balance(p)
        /\ BalanceAfter(p) = 0
        /\ \A q \in Principals \ {p} :
                /\ BalanceAfter(q) = get_balance(q)
                /\ wallet'[q] = wallet[q]
        /\ pool'.total_platform_fees = pool.total_platform_fees

\* C14: a successful withdraw_earnings by p pays p exactly the balance p had
\* before the call and leaves p's balance at 0; the balance of every other
\* principal and the platform fee balance do not change.
C14_WithdrawAll == [][C14_Step]_vars

\* alice has withdrawn her 19 while bob's 10 and the fee of 1 stay in the pool
C14_Witness ==
    /\ \E i \in EventsOfKind("EarningsWithdrawn") :
            events[i].user = "alice" /\ events[i].amount = 19
    /\ table_contains(pool.balances, "alice")
    /\ get_balance("alice") = 0
    /\ get_balance("bob") = 10
    /\ pool.total_platform_fees = 1
    /\ wallet["alice"] = InitialFunds - 10 + 19

\* ----- C15 -----
\* C15 as claimed, for a pool that holds platform fees: withdraw_platform_fees
\* fails with NotAuthorized for a caller that is not the fee recipient and
\* with InsufficientBalance for an amount above the platform fee balance, and
\* passes otherwise.
C15_AsClaimed ==
    pool.total_platform_fees > 0 =>
        \A sender \in Principals, amount \in FeeAmountInputs :
            withdraw_platform_fees_check(sender, amount) =
                IF sender # pool.platform_fee_recipient THEN "ERROR_NOT_AUTHORIZED"
                ELSE IF amount > pool.total_platform_fees THEN "ERROR_INSUFFICIENT_BALANCE"
                ELSE "ok"

\* ----- C16 -----
RECURSIVE SumEvents(_, _)
\* the sum of what the events at the indices in S moved: what(e) of each
SumEvents(what(_), S) ==
    IF S = {} THEN 0
    ELSE LET i == CHOOSE j \in S : TRUE IN what(events[i]) + SumEvents(what, S \ {i})

CreditOf(e) == e.amount + e.platform_fee

AmountOf(e) == e.amount

TotalCredited == SumEvents(CreditOf, EventsOfKind("SaleRecorded"))

TotalPaidOut ==
    SumEvents(AmountOf, EventsOfKind("EarningsWithdrawn"))
        + SumEvents(AmountOf, EventsOfKind("PlatformFeesWithdrawn"))

PoolTotal ==
    SumOver(pool.balances, DOMAIN pool.balances) + pool.total_platform_fees

C16_State ==
    /\ \A p \in DOMAIN pool.balances : pool.balances[p] >= 0
    /\ pool.total_platform_fees >= 0
    /\ PoolTotal = TotalCredited - TotalPaidOut

C16_Step ==
    \A p \in Principals :
        /\ BalanceAfter(p) > get_balance(p) =>
            /\ Emitted("SaleRecorded")
            /\ events'[Len(events')].seller = p
            /\ BalanceAfter(p) = get_balance(p) + events'[Len(events')].amount
        /\ BalanceAfter(p) < get_balance(p) =>
            /\ Emitted("EarningsWithdrawn")
            /\ events'[Len(events')].user = p

\* C16: every seller balance and the platform fee balance are >= 0; a seller
\* balance grows only in record_sale, by exactly the seller payment, and
\* shrinks only in withdraw_earnings; the balances and the platform fees add
\* up to what record_sale took in minus what the two withdrawals paid out.
C16_PoolAccounting == [](C16_State) /\ [][C16_Step]_vars

\* two sales recorded for alice, her earnings and part of the fees paid out
C16_Witness ==
    /\ Cardinality({i \in EventsOfKind("SaleRecorded") : events[i].seller = "alice"}) = 2
    /\ \E i \in EventsOfKind("EarningsWithdrawn") : events[i].amount = 38
    /\ \E i \in EventsOfKind("PlatformFeesWithdrawn") : events[i].amount = 1
    /\ PoolTotal = 1
    /\ TotalCredited = 40
    /\ TotalPaidOut = 39

\* ----- C17 -----
\* C17 as claimed: list_ai_twin rejects an access type that is not Full,
\* Limited or Temporary and also rejects Temporary with 0 days, so no listing
\* with either exists.
C17_AsClaimed ==
    \A l \in ListingIds :
        /\ ValidAccessType(listings[l].access_type)
        /\ ~(/\ listings[l].access_type = ACCESS_TYPE_TEMPORARY
             /\ listings[l].access_duration_days = 0)

\* ----- C18 -----
\* C18 as claimed: no purchase of a listing priced 0 succeeds.
C18_AsClaimed ==
    \A i \in EventsOfKind("PurchaseCompleted") : events[i].price # 0

\* ----- C19 -----
C19_State ==
    \A l \in ListingIds, sender \in Principals :
        sender # listings[l].seller =>
            /\ update_listing_check(sender, l) = "ERROR_NOT_SELLER"
            /\ delist_ai_twin_check(sender, l) = "ERROR_NOT_SELLER"

C19_Step ==
    /\ \/ UNCHANGED vars
       \/ \A l \in ListingIds, sender \in Principals :
               sender # listings[l].seller =>
                   /\ ~delist_ai_twin(sender, l)
                   /\ \A new_price \in Prices, new_terms \in TermsInputs :
                           ~update_listing(sender, l, new_price, new_terms)
    /\ \A l \in ListingIds : listings'[l].seller = listings[l].seller

\* C19: update_listing and delist_ai_twin called by anyone but
\* listing.seller fail with ERROR_NOT_SELLER, whether the listing is active
\* or not, and the failed call leaves the listing's price, terms and
\* is_active and the marketplace registry as they were; a listing's seller
\* never changes.
C19_OnlySellerChanges == [](C19_State) /\ [][C19_Step]_vars

\* a listing its seller has given new terms, still active and registered,
\* and a principal with an NFT of its own that is refused both calls
C19_Witness ==
    \E l \in ListingIds, sender \in Principals :
        /\ sender # listings[l].seller
        /\ OwnedNfts(sender) # {}
        /\ listings[l].is_active
        /\ listings[l].terms = "new"
        /\ table_contains(registry.listings, l)
        /\ update_listing_check(sender, l) = "ERROR_NOT_SELLER"
        /\ delist_ai_twin_check(sender, l) = "ERROR_NOT_SELLER"
        /\ update_listing_check(listings[l].seller, l) = "ok"

\* ----- C20 -----
\* C20 as claimed: a deactivated listing stays as it is, and update_listing
\* on it fails with Inactive, whoever calls.
C20_AsClaimed ==
    \A l \in ListingIds :
        ~listings[l].is_active =>
            \A sender \in Principals :
                update_listing_check(sender, l) = "ERROR_LISTING_INACTIVE"

C20_State ==
    \A l \in ListingIds :
        ~listings[l].is_active =>
            \A sender \in Principals :
                update_listing_check(sender, l) =
                    IF sender = listings[l].seller
                    THEN "ERROR_LISTING_INACTIVE"
                    ELSE "ERROR_NOT_SELLER"

C20_Step ==
    \A l \in ListingIds : ~listings[l].is_active => listings'[l] = listings[l]

\* C20: once a listing is deactivated, by delist or by a purchase, it never
\* changes again: is_active stays false and price, terms, seller, nft and
\* access policy stay what they were; update_listing on it fails with
\* ERROR_LISTING_INACTIVE for the seller and with ERROR_NOT_SELLER for
\* anyone else.
C20_Terminal == [](C20_State) /\ [][C20_Step]_vars

\* a deactivated listing, unchanged by the transaction that came after its
\* deactivation, on which the seller and another principal are refused
C20_Witness ==
    \E l \in ListingIds, sender \in Principals :
        /\ ~listings[l].is_active
        /\ \E i \in Deactivations(l) : i < Len(events)
        /\ sender # listings[l].seller
        /\ update_listing_check(listings[l].seller, l) = "ERROR_LISTING_INACTIVE"
        /\ update_listing_check(sender, l) = "ERROR_NOT_SELLER"

\* ----- C21 -----
\* how often token t is listed in principal p's entry of active_accesses
IndexCount(p, t) ==
    IF ~table_contains(access_registry.active_accesses, p) THEN 0
    ELSE Cardinality({i \in DOMAIN access_registry.active_accesses[p] :
                        access_registry.active_accesses[p][i] = t})

\* the index alone: a token is listed once under its holder and nowhere else
C21_IndexFollowsHolder ==
    \A t \in TokenIds, p \in Principals :
        IndexCount(p, t) = IF p = tokens[t].holder THEN 1 ELSE 0

\* C21 as claimed: after any transfers the holder recorded in the token is
\* the principal that holds it, and the token is listed exactly once in that
\* principal's entry of the index and in no other entry.
C21_AsClaimed ==
    \A t \in TokenIds :
        /\ tokens[t].owner = tokens[t].holder
        /\ \A p \in Principals :
                IndexCount(p, t) = IF p = tokens[t].holder THEN 1 ELSE 0

\* ----- C22 -----
LiveNfts == {n \in 1..Len(nfts) : nfts[n].live}

C22_State ==
    /\ \A n \in LiveNfts, m \in LiveNfts : n # m => nfts[n].twin_id # nfts[m].twin_id
    /\ \A n \in LiveNfts : table_contains(twin_registry.twins, nfts[n].twin_id)
    /\ \A twin_id \in DOMAIN twin_registry.twins :
            /\ \E n \in LiveNfts : nfts[n].twin_id = twin_id
            /\ twin_registry.twins[twin_id] \in Principals
    /\ twin_registry.total_minted = Cardinality(EventsOfKind("AITwinMinted"))
    /\ \A twin_id \in TwinIds :
            mint_ai_twin_check(twin_id) = "ERROR_TWIN_ALREADY_EXISTS"
                <=> table_contains(twin_registry.twins, twin_id)

C22_Step ==
    /\ Emitted("AITwinMinted") =>
            LET e == events'[Len(events')] IN
            /\ ~table_contains(twin_registry.twins, e.twin_id)
            /\ twin_registry'.twins =
                    table_add(twin_registry.twins, e.twin_id, e.creator)
            /\ twin_registry'.total_minted = twin_registry.total_minted + 1
    /\ twin_registry'.total_minted # twin_registry.total_minted => Emitted("AITwinMinted")
    /\ \A sender \in Principals, twin_id \in TwinIds :
            (table_contains(twin_registry.twins, twin_id) /\ mint_ai_twin(sender, twin_id))
                => UNCHANGED vars

\* C22: mint_ai_twin with a twin id that is in the registry fails with
\* ERROR_TWIN_ALREADY_EXISTS and changes neither the registry nor
\* total_minted; otherwise it records the creator as the owner of the new id
\* and counts it.  In every state a twin id has one entry, one owner and one
\* live NFT.
C22_UniqueTwinIds == [](C22_State) /\ [][C22_Step]_vars

\* twinA burned and minted a second time, by bob, and now taken again
C22_Witness ==
    /\ \E i \in EventsOfKind("AITwinBurned") : events[i].twin_id = "twinA"
    /\ Cardinality({i \in EventsOfKind("AITwinMinted") : events[i].twin_id = "twinA"}) = 2
    /\ table_contains(twin_registry.twins, "twinA")
    /\ twin_registry.twins["twinA"] = "bob"
    /\ mint_ai_twin_check("twinA") = "ERROR_TWIN_ALREADY_EXISTS"

\* ----- C23 -----
C23_Step ==
    Emitted("AITwinTransferred") =>
        LET e == events'[Len(events')] IN
        /\ table_contains(twin_registry.twins, e.twin_id)
        /\ twin_registry.twins[e.twin_id] = e.from
        /\ twin_registry'.twins[e.twin_id] = e.to

\* C23 as claimed: transfer_twin goes through only for a twin id that is in
\* the registry and a sender that the registry records as its owner, and then
\* records the recipient as the owner.
C23_AsClaimed == [][C23_Step]_vars

\* ----- C24 -----
C24_Step ==
    Emitted("AITwinBurned") =>
        LET e == events'[Len(events')] IN
        /\ table_contains(twin_registry.twins, e.twin_id)
        /\ ~table_contains(twin_registry'.twins, e.twin_id)
        /\ ~nfts'[e.nft_id].live
        /\ listings' = listings
        /\ registry' = registry
        /\ tokens' = tokens
        /\ access_registry' = access_registry

C24_State ==
    \A twin_id \in TwinIds :
        ~table_contains(twin_registry.twins, twin_id) => mint_ai_twin_check(twin_id) = "ok"

\* C24: burn_twin removes the twin id from the registry, so that it can be
\* minted again, and touches nothing else: every listing and every access
\* token that refers to the twin is exactly as before, an active listing of a
\* burned NFT is still active.
C24_BurnDoesNotCascade == [](C24_State) /\ [][C24_Step]_vars

\* an active listing and an active token of twinA, whose NFT has been burned
C24_Witness ==
    \E l \in ListingIds, t \in TokenIds :
        /\ listings[l].is_active
        /\ listings[l].twin_id = "twinA"
        /\ ~nfts[listings[l].nft_id].live
        /\ tokens[t].twin_id = "twinA"
        /\ tokens[t].is_active
        /\ ~table_contains(twin_registry.twins, "twinA")
        /\ table_contains(registry.listings, l)
        /\ mint_ai_twin_check("twinA") = "ok"

\* ----- C25 -----
C25_Step ==
    Emitted("PurchaseCompleted") =>
        LET e == events'[Len(events')] IN
        /\ \A p \in Principals :
                wallet'[p] - wallet[p] =
                    (IF p = registry.platform_fee_recipient THEN e.platform_fee ELSE 0)
                    + (IF p = e.seller THEN e.seller_amount ELSE 0)
                    - (IF p = e.buyer THEN e.price ELSE 0)
        /\ SumOver(wallet', Principals) = SumOver(wallet, Principals)

\* C25 as claimed: in every successful purchase the fee recipient receives
\* platform_fee, the seller receives seller_amount and the buyer is debited
\* price, the overpayment going back to the buyer; the total is conserved.
C25_AsClaimed == [][C25_Step]_vars

\* ----- C28 -----
SettledListings == {l \in ListingIds : PurchasesOf(l) # {}}

C28_State ==
    /\ Cardinality(EventsOfKind("PurchaseCompleted")) = Cardinality(SettledListings)
    /\ Cardinality(EventsOfKind("PurchaseCompleted")) = registry.total_sales
    /\ \A l \in ListingIds : Cardinality(PurchasesOf(l)) <= 1
    /\ Cardinality(EventsOfKind("ListingCreated")) = Len(listings)
    /\ Cardinality(EventsOfKind("AITwinMinted")) = Len(nfts)

C28_Step ==
    IF events' = events
    THEN UNCHANGED vars
    ELSE
        LET e == events'[Len(events')] IN
        /\ Len(events') = Len(events) + 1
        /\ SubSeq(events', 1, Len(events)) = events
        /\ e.kind = "PurchaseCompleted" =>
                LET l == e.listing_id IN
                /\ listings[l].is_active /\ ~listings'[l].is_active
                /\ e.seller = listings[l].seller
                /\ e.price = listings[l].price
                /\ e.twin_id = listings[l].twin_id
                /\ e.platform_fee + e.seller_amount = e.price
                /\ wallet[e.buyer] - wallet'[e.buyer] <= e.price
                /\ registry'.total_volume = registry.total_volume + e.price
        /\ e.kind = "ListingCreated" =>
                /\ Len(listings') = Len(listings) + 1
                /\ e.listing_id = Len(listings')
                /\ listings'[e.listing_id].seller = e.seller
                /\ listings'[e.listing_id].price = e.price
        /\ e.kind = "ListingUpdated" =>
                /\ listings'[e.listing_id].price = e.new_price
                /\ listings'[e.listing_id].terms = e.new_terms
        /\ e.kind = "ListingDelisted" =>
                listings[e.listing_id].is_active /\ ~listings'[e.listing_id].is_active
        /\ e.kind = "AITwinMinted" => Len(nfts') = Len(nfts) + 1
        /\ \A l \in ListingIds :
                /\ (listings[l].is_active /\ ~listings'[l].is_active) =>
                        /\ e.kind \in {"ListingDelisted", "PurchaseCompleted"}
                        /\ e.listing_id = l
                /\ (listings'[l].price # listings[l].price
                        \/ listings'[l].terms # listings[l].terms) =>
                        /\ e.kind = "ListingUpdated"
                        /\ e.listing_id = l

\* C28: every transaction that changes the state appends exactly one event,
\* of the kind of its operation and carrying the values of that change, and
\* a failed transaction appends none; a purchase appends one
\* PurchaseCompleted with the listing's id, seller and price and the split of
\* that price, so there are as many PurchaseCompleted events as settled
\* listings (and as total_sales counts).
C28_EventLog == [](C28_State) /\ [][C28_Step]_vars

\* bob's purchase of alice's listing at 50, logged once with its split
C28_Witness ==
    \E i \in EventsOfKind("PurchaseCompleted") :
        /\ events[i].buyer = "bob"
        /\ events[i].seller = "alice"
        /\ events[i].price = 50
        /\ events[i].platform_fee = 2
        /\ events[i].seller_amount = 48
        /\ EventsOfKind("PurchaseCompleted") = {i}
        /\ SettledListings = {events[i].listing_id}
        /\ registry.total_sales = 1
        /\ Len(events) = 4

\* ----- C29 -----
\* C29 as claimed: the registry's listings table has an entry with value
\* true for a listing exactly when the listing is active.
C29_AsClaimed ==
    \A l \in ListingIds :
        (table_contains(registry.listings, l) /\ registry.listings[l])
            <=> listings[l].is_active

\* ----- C30 -----
C30_Step ==
    Emitted("PurchaseCompleted") =>
        LET e == events'[Len(events')] IN
        listings[e.listing_id].nft_id \in OwnedNfts(e.buyer)

\* C30 as claimed: a purchase goes through only when the NFT handed in with
\* the call is the one the listing was made for, so the buyer of every
\* completed purchase had that NFT to hand in.
C30_AsClaimed == [][C30_Step]_vars

\* ----- C27 -----
C27_Step ==
    Emitted("ListingUpdated") =>
        LET e == events'[Len(events')]
            l == e.listing_id
        IN
        /\ listings[l].is_active
        /\ listings' = [listings EXCEPT ![l].price = e.new_price,
                                        ![l].terms = e.new_terms]
        /\ listings'[l].created_at = listings[l].created_at
        /\ listings'[l].is_active
        /\ registry' = registry
        /\ UNCHANGED <<nfts, twin_registry, wallet, epoch>>

\* C27: a successful update_listing writes the listing's price and terms and
\* nothing else: created_at, seller, nft, access type, duration and is_active
\* of the listing, every other listing and the registry's counters and table
\* are as before.
C27_UpdateFrame == [][C27_Step]_vars

\* a listing created in epoch 0 and given a new price and terms in epoch 1
C27_Witness ==
    \E l \in ListingIds, i \in EventsOfKind("ListingUpdated") :
        /\ events[i].listing_id = l
        /\ events[i].timestamp = 1
        /\ listings[l].created_at = 0
        /\ listings[l].terms = "new"
        /\ listings[l].price = 0
        /\ listings[l].is_active
        /\ registry.total_listings = 1

\* ----- C26 -----
\* the payments the client has had executed for a twin
PaymentsFor(twinId) ==
    {i \in DOMAIN client.executed : client.executed[i].twinId = twinId}

RecordsFor(twinId) ==
    {i \in DOMAIN client.purchasedAccess : client.purchasedAccess[i].listingId = twinId}

\* C26 as claimed: the client pays at most once for a twin: however often
\* the purchase is repeated, there is at most one executed payment and one
\* purchase record per twin.
C26_AsClaimed ==
    \A listing \in ClientListings :
        /\ Cardinality(PaymentsFor(listing.id)) <= 1
        /\ Cardinality(RecordsFor(listing.id)) <= 1

====
